---- MODULE Spec2Model ----
(***************************************************************************)
(* Model of log-publisher/gateway-mqtt-publisher.py                        *)
(*                                                                         *)
(* Three specifications share the variables below.                         *)
(*   Spec       the scheduler: publish_stats (startup connect, the polling *)
(*              loop, the exception handlers and the shutdown path).       *)
(*   ParseSpec  the pure function parse_ttn_stats applied to inputs drawn  *)
(*              from bounded sets.                                         *)
(*   LocalSpec  get_gateway_stats applied to bounded log windows.          *)
(*                                                                         *)
(* Time is counted in whole seconds.  An exception that is not an          *)
(* interrupt is raised exactly where the code can raise one: int() on a    *)
(* non-numeric count, .get on a JSON value that is not an object, and      *)
(* client.publish on a payload that is neither text nor a number.          *)
(***************************************************************************)
EXTENDS Integers, Sequences, FiniteSets, TLC

\* ---------------------------------------------------------------------------
\* Program constants
\* ---------------------------------------------------------------------------
max_retries == 3
ConnectBackoff == 5
local_interval == 5
ttn_interval == 10
HeartbeatSleep == 1
ErrorBackoff == 5
HttpTimeout == 5
DefaultMaxAge == 600
TailLines == 100
RecentWindow == 50

\* ---------------------------------------------------------------------------
\* Bounds of the model
\* ---------------------------------------------------------------------------
\* wall-clock reading (time.time()) when publish_stats is entered
StartClock == 100
\* how many seconds of wall-clock time the model follows
Horizon == 27
\* largest counter value a fetched document carries
MaxCount == 3

\* how many runs of equal lines a fetched log window is made of
MaxRuns == 3

MaxClock == StartClock + Horizon

\* ---------------------------------------------------------------------------
\* JSON documents returned by the TTN connection/stats endpoint
\* ---------------------------------------------------------------------------
\* A count field: an integer, a numeric string (TTN sends uint64 as text),
\* a missing key, or a value int() rejects ("abc", null).
CountInt(n) == [k |-> "int", v |-> n]
CountStr(n) == [k |-> "numstr", v |-> n]
CountMissing == [k |-> "missing", v |-> 0]
CountBad == [k |-> "bad", v |-> 0]

\* A timestamp field: missing key, "", an ISO-8601 instant with offset (t is
\* the instant in seconds), an ISO-8601 local time without offset, a string
\* fromisoformat rejects, or a JSON value that is not a string (list, object).
TsMissing == [k |-> "missing", t |-> 0]
TsEmpty == [k |-> "empty", t |-> 0]
TsIso(t) == [k |-> "iso", t |-> t]
TsNaive(t) == [k |-> "naive", t |-> t]
TsGarbage == [k |-> "garbage", t |-> 0]
TsBadType == [k |-> "badtype", t |-> 0]

\* The value fetch_ttn_stats hands to parse_ttn_stats: None, a falsy JSON value
\* ({}), a JSON value without .get (a non-empty list), or an object.
DocNone ==
    [kind |-> "none", uplink_count |-> CountMissing, downlink_count |-> CountMissing,
     last_uplink_received_at |-> TsMissing, last_downlink_received_at |-> TsMissing]
DocEmpty ==
    [kind |-> "empty", uplink_count |-> CountMissing, downlink_count |-> CountMissing,
     last_uplink_received_at |-> TsMissing, last_downlink_received_at |-> TsMissing]
DocNonDict ==
    [kind |-> "nondict", uplink_count |-> CountMissing, downlink_count |-> CountMissing,
     last_uplink_received_at |-> TsMissing, last_downlink_received_at |-> TsMissing]
DocDict(up, down, lastUp, lastDown) ==
    [kind |-> "dict", uplink_count |-> up, downlink_count |-> down,
     last_uplink_received_at |-> lastUp, last_downlink_received_at |-> lastDown]

\* ---------------------------------------------------------------------------
\* parse_ttn_stats
\* ---------------------------------------------------------------------------
\* `not data`
DataFalsy(data) == data.kind \in {"none", "empty"}

\* int(data.get(key, 0)) raises ValueError / TypeError
IntRaises(c) == c.k = "bad"

\* int(data.get(key, 0))
ToInt(c) == IF c.k = "missing" THEN 0 ELSE c.v

\* data.get(key, "")
GetTs(ts) == IF ts.k = "missing" THEN TsEmpty ELSE ts

\* `if last_up:`
TsTruthy(ts) == ts.k \notin {"missing", "empty"}

\* the absent-input record with the flag left set
ZeroRecord_Connected ==
    [uplink_count |-> 0, downlink_count |-> 0,
     last_uplink_received_at |-> TsEmpty, last_downlink_received_at |-> TsEmpty,
     connected |-> TRUE]

\* the value of a local that has not been assigned yet
NoRecord ==
    [uplink_count |-> -1, downlink_count |-> -1,
     last_uplink_received_at |-> TsMissing, last_downlink_received_at |-> TsMissing,
     connected |-> FALSE]

ZeroRecord ==
    [uplink_count |-> 0, downlink_count |-> 0,
     last_uplink_received_at |-> TsEmpty, last_downlink_received_at |-> TsEmpty,
     connected |-> FALSE]

\* line 181 without `and uplink > 0`
DeriveConnected_NoUplink(last_up, uplink, max_age_seconds, utcnow) ==
    IF ~TsTruthy(last_up) THEN FALSE
    ELSE IF last_up.k = "iso"
         THEN utcnow - last_up.t <= max_age_seconds
         ELSE uplink > 0

\* line 181 with `age < max_age_seconds`
DeriveConnected_Strict(last_up, uplink, max_age_seconds, utcnow) ==
    IF ~TsTruthy(last_up) THEN FALSE
    ELSE IF last_up.k = "iso"
         THEN (utcnow - last_up.t < max_age_seconds) /\ (uplink > 0)
         ELSE uplink > 0

\* line 183 as `connected = False`
DeriveConnected_NoFallback(last_up, uplink, max_age_seconds, utcnow) ==
    IF ~TsTruthy(last_up) THEN FALSE
    ELSE IF last_up.k = "iso"
         THEN (utcnow - last_up.t <= max_age_seconds) /\ (uplink > 0)
         ELSE FALSE

\* line 174 as `connected = uplink > 0`
DeriveConnected_CountDefault(last_up, uplink, max_age_seconds, utcnow) ==
    IF ~TsTruthy(last_up) THEN uplink > 0
    ELSE IF last_up.k = "iso"
         THEN (utcnow - last_up.t <= max_age_seconds) /\ (uplink > 0)
         ELSE uplink > 0

\* lines 174-183: the connected flag.  The try body completes only for an
\* instant with offset; every other non-empty value raises inside the try
\* (ValueError, TypeError on aware - naive, AttributeError) and takes the
\* except branch.
DeriveConnected(last_up, uplink, max_age_seconds, utcnow) ==
    IF ~TsTruthy(last_up) THEN FALSE
    ELSE IF last_up.k = "iso"
         THEN (utcnow - last_up.t <= max_age_seconds) /\ (uplink > 0)
         ELSE uplink > 0

\* parse_ttn_stats without the `if not data` guard: None.get raises
ParseRaises_NoGuard(data) ==
    \/ data.kind \in {"none", "nondict"}
    \/ /\ data.kind = "dict"
       /\ (IntRaises(data.uplink_count) \/ IntRaises(data.downlink_count))

\* parse_ttn_stats propagates an exception to its caller
ParseRaises(data) ==
    \/ data.kind = "nondict"
    \/ /\ data.kind = "dict"
       /\ (IntRaises(data.uplink_count) \/ IntRaises(data.downlink_count))

\* the record parse_ttn_stats returns when it does not raise
parse_ttn_stats(data, max_age_seconds, utcnow) ==
    IF DataFalsy(data) THEN ZeroRecord
    ELSE LET uplink == ToInt(data.uplink_count)
             downlink == ToInt(data.downlink_count)
             last_up == GetTs(data.last_uplink_received_at)
             last_down == GetTs(data.last_downlink_received_at)
         IN [uplink_count |-> uplink, downlink_count |-> downlink,
             last_uplink_received_at |-> last_up,
             last_downlink_received_at |-> last_down,
             connected |-> DeriveConnected(last_up, uplink, max_age_seconds, utcnow)]

\* ---------------------------------------------------------------------------
\* State
\* ---------------------------------------------------------------------------
VARIABLES
    pc,              \* position of publish_stats
    attempt,         \* loop variable of the startup connect loop
    connect_fails,   \* client.connect calls that raised
    startup_slept,   \* seconds slept between connect attempts
    bus_connected,   \* a client.connect call returned
    loop_running,    \* client.loop_start() called and not yet loop_stop()
    disconnected,    \* client.disconnect() called
    interrupted,     \* a KeyboardInterrupt was delivered
    clock,           \* wall clock, seconds
    ttn_configured,  \* TTN_CLUSTER, TTN_GATEWAY_ID and TTN_API_KEY all non-empty
    now,             \* local `now`
    last_local,      \* local `last_local`
    last_ttn,        \* local `last_ttn`
    ttn_raw,         \* local `ttn_raw`
    ttn,             \* local `ttn`
    block,           \* which of the two `if now - last_ttn >= ttn_interval` blocks
    pub_idx,         \* next client.publish call of the block
    pubs,            \* messages handed to client.publish in this iteration
    pub_total,       \* messages handed to client.publish since startup
    http_requests,   \* requests.get calls since startup
    last_http,       \* how the requests.get of the last fetch_ttn_stats call ended
    iter_fetches,    \* fetch_ttn_stats calls in this iteration
    last_ttn_top,    \* last_ttn when this iteration read `now`
    ticks,           \* completed time.sleep(1) heartbeats
    ttn_runs,        \* fetch_ttn_stats calls since startup
    local_runs,      \* get_gateway_stats calls since startup
    failures,        \* exceptions caught by `except Exception` of the loop
    p_pc,            \* ParseSpec: position of the parse_ttn_stats call
    p_data,          \* ParseSpec: argument data
    p_max_age,       \* ParseSpec: argument max_age_seconds
    p_now,           \* ParseSpec: datetime.now(timezone.utc)
    p_out,           \* ParseSpec: returned record
    l_pc,            \* LocalSpec: position of the get_gateway_stats call
    l_docker_ok,     \* LocalSpec: the Docker API answers the logs request
    l_lines,         \* LocalSpec: local `lines`
    l_out            \* LocalSpec: returned record

startupVars == <<attempt, connect_fails, startup_slept, bus_connected>>
busVars == <<loop_running, disconnected>>
chainVars == <<ttn_raw, ttn, block, pub_idx>>
pubVars == <<pubs, pub_total>>
iterVars == <<now, iter_fetches, last_ttn_top>>
countVars == <<ticks, ttn_runs, local_runs, failures, http_requests, last_http>>
parseVars == <<p_pc, p_data, p_max_age, p_now, p_out>>
localVars == <<l_pc, l_docker_ok, l_lines, l_out>>
vars == <<pc, startupVars, busVars, interrupted, clock, ttn_configured,
          last_local, last_ttn, chainVars, pubVars, iterVars, countVars,
          parseVars, localVars>>

\* ---------------------------------------------------------------------------
\* Publisher: topics and payloads of one remote block
\* ---------------------------------------------------------------------------
PInt(n) == [k |-> "int", v |-> n, s |-> ""]
PStr(str) == [k |-> "str", v |-> 0, s |-> str]
PTs(ts) == [k |-> "ts", v |-> ts.t, s |-> ts.k]
PTime(t) == [k |-> "time", v |-> t, s |-> ""]

\* lines 239-260 as the copy at lines 273-297 has them: ttn/connected left out
Block1Topics_NoConnected ==
    <<"ttn/uplink_count", "ttn/downlink_count", "ttn/last_uplink_received_at",
      "ttn/last_downlink_received_at", "ttn/last_update">>

\* lines 239-260 with the ttn/last_update publish moved to the front
Block1Topics_UpdateFirst ==
    <<"ttn/last_update", "ttn/uplink_count", "ttn/downlink_count",
      "ttn/last_uplink_received_at", "ttn/last_downlink_received_at",
      "ttn/connected">>

\* lines 239-260
Block1Topics ==
    <<"ttn/uplink_count", "ttn/downlink_count", "ttn/last_uplink_received_at",
      "ttn/last_downlink_received_at", "ttn/connected", "ttn/last_update">>

\* lines 273-297 (no ttn/connected)
Block2Topics ==
    <<"ttn/uplink_count", "ttn/downlink_count", "ttn/last_uplink_received_at",
      "ttn/last_downlink_received_at", "ttn/last_update">>

BlockTopics(b) == IF b = 1 THEN Block1Topics ELSE Block2Topics

Payload(topic, rec, clk) ==
    CASE topic = "ttn/uplink_count" -> PInt(rec.uplink_count)
      [] topic = "ttn/downlink_count" -> PInt(rec.downlink_count)
      [] topic = "ttn/last_uplink_received_at" -> PTs(rec.last_uplink_received_at)
      [] topic = "ttn/last_downlink_received_at" -> PTs(rec.last_downlink_received_at)
      [] topic = "ttn/connected" -> PStr(IF rec.connected THEN "1" ELSE "0")
      [] OTHER -> PTime(clk)

\* client.publish raises TypeError for a payload that is not str, bytes, int,
\* float or None
PublishRaises(payload) == payload.k = "ts" /\ payload.s = "badtype"

\* ---------------------------------------------------------------------------
\* fetch_ttn_stats: what the call can return at wall-clock time clk
\* ---------------------------------------------------------------------------
FetchDelays == {0, HttpTimeout}

LoopCounts == {CountStr(0), CountStr(MaxCount), CountBad}

LoopLastUp(clk) ==
    {TsEmpty, TsGarbage, TsBadType,
     TsIso(clk - DefaultMaxAge), TsIso(clk - DefaultMaxAge - 1)}

\* the decoded body of a successful response (JSON null decodes to None)
FetchedDocs(clk) ==
    {DocNone, DocEmpty, DocNonDict} \cup
    {DocDict(up, CountStr(1), lastUp, TsEmpty) :
        up \in LoopCounts, lastUp \in LoopLastUp(clk)}

\* ---------------------------------------------------------------------------
\* Initial state: publish_stats entered, nothing connected yet
\* ---------------------------------------------------------------------------
ParseIdle ==
    /\ p_pc = "idle"
    /\ p_data = DocNone
    /\ p_max_age = DefaultMaxAge
    /\ p_now = StartClock
    /\ p_out = NoRecord

\* no get_gateway_stats call under way
NoLocalStats == [rx_total |-> -1, tx_total |-> -1, connected |-> FALSE, timestamp |-> 0]

LocalIdle ==
    /\ l_pc = "idle"
    /\ l_docker_ok = TRUE
    /\ l_lines = <<>>
    /\ l_out = NoLocalStats

SchedInit ==
    /\ pc = "connect"
    /\ attempt = 1
    /\ connect_fails = 0
    /\ startup_slept = 0
    /\ bus_connected = FALSE
    /\ loop_running = FALSE
    /\ disconnected = FALSE
    /\ interrupted = FALSE
    /\ clock = StartClock
    /\ now = 0
    /\ last_local = 0
    /\ last_ttn = 0
    /\ ttn_raw = DocNone
    /\ ttn = NoRecord
    /\ block = 1
    /\ pub_idx = 1
    /\ pubs = <<>>
    /\ pub_total = 0
    /\ http_requests = 0
    /\ last_http = "none"
    /\ iter_fetches = 0
    /\ last_ttn_top = 0
    /\ ticks = 0
    /\ ttn_runs = 0
    /\ local_runs = 0
    /\ failures = 0

Init ==
    /\ SchedInit
    /\ ttn_configured \in BOOLEAN
    /\ ParseIdle
    /\ LocalIdle

\* ---------------------------------------------------------------------------
\* publish_stats: startup connect with retry (lines 204-221)
\* ---------------------------------------------------------------------------
\* client.connect returns: break, client.loop_start()
ConnectOk ==
    /\ pc = "connect"
    /\ bus_connected' = TRUE
    /\ loop_running' = TRUE
    /\ pc' = "loop_top"
    /\ UNCHANGED <<attempt, connect_fails, startup_slept, disconnected, interrupted,
                   clock, ttn_configured, last_local, last_ttn, chainVars, pubVars,
                   iterVars, countVars, parseVars, localVars>>

\* lines 216-218 without the `return`: the last failure falls through to
\* client.loop_start() and the loop
ConnectFail_NoReturn ==
    /\ pc = "connect"
    /\ connect_fails' = connect_fails + 1
    /\ IF attempt = max_retries
       THEN /\ pc' = "loop_top"
            /\ loop_running' = TRUE
       ELSE /\ pc' = "connect_sleep"
            /\ loop_running' = loop_running
    /\ UNCHANGED <<attempt, startup_slept, bus_connected, disconnected, interrupted,
                   clock, ttn_configured, last_local, last_ttn, chainVars, pubVars,
                   iterVars, countVars, parseVars, localVars>>

\* client.connect raises: return on the last attempt, else go to sleep
ConnectFail ==
    /\ pc = "connect"
    /\ connect_fails' = connect_fails + 1
    /\ pc' = IF attempt = max_retries THEN "returned" ELSE "connect_sleep"
    /\ UNCHANGED <<attempt, startup_slept, bus_connected, busVars, interrupted,
                   clock, ttn_configured, last_local, last_ttn, chainVars, pubVars,
                   iterVars, countVars, parseVars, localVars>>

\* time.sleep(5), then the next attempt
ConnectSleep ==
    /\ pc = "connect_sleep"
    /\ clock + ConnectBackoff <= MaxClock
    /\ clock' = clock + ConnectBackoff
    /\ startup_slept' = startup_slept + ConnectBackoff
    /\ attempt' = attempt + 1
    /\ pc' = "connect"
    /\ UNCHANGED <<connect_fails, bus_connected, busVars, interrupted,
                   ttn_configured, last_local, last_ttn, chainVars, pubVars,
                   iterVars, countVars, parseVars, localVars>>

\* KeyboardInterrupt before the loop: nothing catches it
StartupInterrupt ==
    /\ pc \in {"connect", "connect_sleep"}
    /\ interrupted' = TRUE
    /\ pc' = "crashed"
    /\ UNCHANGED <<startupVars, busVars, clock, ttn_configured, last_local,
                   last_ttn, chainVars, pubVars, iterVars, countVars, parseVars, localVars>>

\* ---------------------------------------------------------------------------
\* publish_stats: the polling loop (lines 231-313)
\* ---------------------------------------------------------------------------
LoopPcs == {"loop_top", "check", "fetch", "parse", "publish", "chain_done",
            "sleep", "backoff"}

\* line 233: now = time.time()
LoopTop ==
    /\ pc = "loop_top"
    /\ now' = clock
    /\ last_ttn_top' = last_ttn
    /\ iter_fetches' = 0
    /\ pubs' = <<>>
    /\ block' = 1
    /\ pc' = "check"
    /\ UNCHANGED <<startupVars, busVars, interrupted, clock, ttn_configured,
                   last_local, last_ttn, ttn_raw, ttn, pub_idx, pub_total,
                   countVars, parseVars, localVars>>

\* lines 235 and 269 comparing with local_interval
CheckDue_LocalInterval ==
    /\ pc = "check"
    /\ now - last_ttn >= local_interval
    /\ pc' = "fetch"
    /\ UNCHANGED <<startupVars, busVars, interrupted, clock, ttn_configured,
                   last_local, last_ttn, chainVars, pubVars, iterVars, countVars,
                   parseVars, localVars>>

\* lines 235 and 269: `if now - last_ttn >= ttn_interval:` is true
CheckDue ==
    /\ pc = "check"
    /\ now - last_ttn >= ttn_interval
    /\ pc' = "fetch"
    /\ UNCHANGED <<startupVars, busVars, interrupted, clock, ttn_configured,
                   last_local, last_ttn, chainVars, pubVars, iterVars, countVars,
                   parseVars, localVars>>

\* lines 235 and 269: the condition is false; after the first block comes the
\* second one, after the second one time.sleep(1)
CheckNotDue ==
    /\ pc = "check"
    /\ ~(now - last_ttn >= ttn_interval)
    /\ IF block = 1
       THEN /\ block' = 2
            /\ pc' = "check"
       ELSE /\ block' = block
            /\ pc' = "sleep"
    /\ UNCHANGED <<startupVars, busVars, interrupted, clock, ttn_configured,
                   last_local, last_ttn, ttn_raw, ttn, pub_idx, pubVars, iterVars,
                   countVars, parseVars, localVars>>

\* requests.get, raise_for_status and r.json() end well, or one of them raises
HttpFailures == {"status", "timeout", "network"}

\* seconds one requests.get(timeout=5) takes
HttpDelays(outcome) ==
    IF outcome = "ok" THEN FetchDelays
    ELSE IF outcome = "timeout" THEN {HttpTimeout} ELSE {0}

\* lines 147-156: the value fetch_ttn_stats returns after its request
FetchReturn(outcome, doc) == IF outcome = "ok" THEN doc ELSE DocNone

\* lines 147-156 without the try/except: a failed request raises into the loop
Fetch_Unguarded ==
    /\ pc = "fetch"
    /\ IF ~ttn_configured
       THEN /\ ttn_raw' = DocNone
            /\ last_http' = "none"
            /\ pc' = "parse"
            /\ UNCHANGED <<clock, http_requests, failures>>
       ELSE \E outcome \in {"ok"} \cup HttpFailures : \E d \in HttpDelays(outcome) :
               /\ clock + d <= MaxClock
               /\ clock' = clock + d
               /\ http_requests' = http_requests + 1
               /\ last_http' = outcome
               /\ IF outcome = "ok"
                  THEN /\ ttn_raw' \in FetchedDocs(clock + d)
                       /\ pc' = "parse"
                       /\ failures' = failures
                  ELSE /\ ttn_raw' = ttn_raw
                       /\ pc' = "backoff"
                       /\ failures' = failures + 1
    /\ iter_fetches' = iter_fetches + 1
    /\ ttn_runs' = ttn_runs + 1
    /\ UNCHANGED <<startupVars, busVars, interrupted, ttn_configured, last_local,
                   last_ttn, ttn, block, pub_idx, pubVars, now, last_ttn_top,
                   ticks, local_runs, parseVars, localVars>>

\* lines 236 and 270: ttn_raw = fetch_ttn_stats().  With incomplete
\* configuration the function returns None at once (lines 139-142); otherwise
\* it makes one requests.get and returns the document, or None when the
\* request, the status check or the JSON decoding raised.
Fetch ==
    /\ pc = "fetch"
    /\ IF ~ttn_configured
       THEN /\ ttn_raw' = DocNone
            /\ last_http' = "none"
            /\ UNCHANGED <<clock, http_requests>>
       ELSE \E outcome \in {"ok"} \cup HttpFailures : \E d \in HttpDelays(outcome) :
               /\ clock + d <= MaxClock
               /\ clock' = clock + d
               /\ http_requests' = http_requests + 1
               /\ last_http' = outcome
               /\ \E doc \in FetchedDocs(clock + d) :
                     ttn_raw' = FetchReturn(outcome, doc)
    /\ iter_fetches' = iter_fetches + 1
    /\ ttn_runs' = ttn_runs + 1
    /\ pc' = "parse"
    /\ UNCHANGED <<startupVars, busVars, interrupted, ttn_configured, last_local,
                   last_ttn, ttn, block, pub_idx, pubVars, now, last_ttn_top,
                   ticks, local_runs, failures, parseVars, localVars>>

\* lines 237 and 271: ttn = parse_ttn_stats(ttn_raw) returns
ParseOk ==
    /\ pc = "parse"
    /\ ~ParseRaises(ttn_raw)
    /\ ttn' = parse_ttn_stats(ttn_raw, DefaultMaxAge, clock)
    /\ pub_idx' = 1
    /\ pc' = "publish"
    /\ UNCHANGED <<startupVars, busVars, interrupted, clock, ttn_configured,
                   last_local, last_ttn, ttn_raw, block, pubVars, iterVars,
                   countVars, parseVars, localVars>>

\* lines 311-313 with a `break` in place of the sleep
CatchException_Break ==
    /\ failures' = failures + 1
    /\ pc' = "shutdown"

\* lines 311-312: `except Exception` of the loop takes over, then sleeps
CatchException ==
    /\ failures' = failures + 1
    /\ pc' = "backoff"

\* lines 237 and 271: parse_ttn_stats raises
ParseFail ==
    /\ pc = "parse"
    /\ ParseRaises(ttn_raw)
    /\ CatchException
    /\ UNCHANGED <<startupVars, busVars, interrupted, clock, ttn_configured,
                   last_local, last_ttn, chainVars, pubVars, iterVars, ticks,
                   ttn_runs, local_runs, http_requests, last_http, parseVars, localVars>>

\* the message the next client.publish call of the block sends
NextMessage ==
    LET topic == BlockTopics(block)[pub_idx]
    IN [topic |-> topic, payload |-> Payload(topic, ttn, clock), retain |-> TRUE]

\* lines 239-260 and 273-297: one client.publish call returns
PublishOk ==
    /\ pc = "publish"
    /\ ~PublishRaises(NextMessage.payload)
    /\ pubs' = Append(pubs, NextMessage)
    /\ pub_total' = pub_total + 1
    /\ IF pub_idx = Len(BlockTopics(block))
       THEN /\ pc' = "chain_done"
            /\ pub_idx' = pub_idx
       ELSE /\ pc' = "publish"
            /\ pub_idx' = pub_idx + 1
    /\ UNCHANGED <<startupVars, busVars, interrupted, clock, ttn_configured,
                   last_local, last_ttn, ttn_raw, ttn, block, iterVars, countVars,
                   parseVars, localVars>>

\* lines 239-260 and 273-297: one client.publish call raises
PublishFail ==
    /\ pc = "publish"
    /\ PublishRaises(NextMessage.payload)
    /\ CatchException
    /\ UNCHANGED <<startupVars, busVars, interrupted, clock, ttn_configured,
                   last_local, last_ttn, chainVars, pubVars, iterVars, ticks,
                   ttn_runs, local_runs, http_requests, last_http, parseVars, localVars>>

\* lines 267 and 304 without `last_ttn = now`
ChainDone_NoReset ==
    /\ pc = "chain_done"
    /\ last_ttn' = last_ttn
    /\ IF block = 1
       THEN /\ block' = 2
            /\ pc' = "check"
       ELSE /\ block' = block
            /\ pc' = "sleep"
    /\ UNCHANGED <<startupVars, busVars, interrupted, clock, ttn_configured,
                   last_local, ttn_raw, ttn, pub_idx, pubVars, iterVars, countVars,
                   parseVars, localVars>>

\* lines 267 and 304: last_ttn = now, then on to what follows the block
ChainDone ==
    /\ pc = "chain_done"
    /\ last_ttn' = now
    /\ IF block = 1
       THEN /\ block' = 2
            /\ pc' = "check"
       ELSE /\ block' = block
            /\ pc' = "sleep"
    /\ UNCHANGED <<startupVars, busVars, interrupted, clock, ttn_configured,
                   last_local, ttn_raw, ttn, pub_idx, pubVars, iterVars, countVars,
                   parseVars, localVars>>

\* line 306: time.sleep(1)
Heartbeat ==
    /\ pc = "sleep"
    /\ clock + HeartbeatSleep <= MaxClock
    /\ clock' = clock + HeartbeatSleep
    /\ ticks' = ticks + 1
    /\ pc' = "loop_top"
    /\ UNCHANGED <<startupVars, busVars, interrupted, ttn_configured, last_local,
                   last_ttn, chainVars, pubVars, iterVars, ttn_runs, local_runs,
                   failures, http_requests, last_http, parseVars, localVars>>

\* line 313: time.sleep(5) inside the `except Exception` handler
Backoff ==
    /\ pc = "backoff"
    /\ clock + ErrorBackoff <= MaxClock
    /\ clock' = clock + ErrorBackoff
    /\ pc' = "loop_top"
    /\ UNCHANGED <<startupVars, busVars, interrupted, ttn_configured, last_local,
                   last_ttn, chainVars, pubVars, iterVars, countVars, parseVars, localVars>>

\* lines 308-310: KeyboardInterrupt inside the try body: break
InterruptInTry ==
    /\ pc \in {"loop_top", "check", "fetch", "parse", "publish", "chain_done", "sleep"}
    /\ interrupted' = TRUE
    /\ pc' = "shutdown"
    /\ UNCHANGED <<startupVars, busVars, clock, ttn_configured, last_local,
                   last_ttn, chainVars, pubVars, iterVars, countVars, parseVars, localVars>>

\* line 313: KeyboardInterrupt during the handler's sleep.  It is raised
\* outside the try body, so no except clause of the loop sees it and it leaves
\* publish_stats.
InterruptInBackoff ==
    /\ pc = "backoff"
    /\ interrupted' = TRUE
    /\ pc' = "crashed"
    /\ UNCHANGED <<startupVars, busVars, clock, ttn_configured, last_local,
                   last_ttn, chainVars, pubVars, iterVars, countVars, parseVars, localVars>>

\* lines 315-316: client.loop_stop(); client.disconnect(); return
Shutdown ==
    /\ pc = "shutdown"
    /\ loop_running' = FALSE
    /\ disconnected' = TRUE
    /\ pc' = "returned"
    /\ UNCHANGED <<startupVars, interrupted, clock, ttn_configured, last_local,
                   last_ttn, chainVars, pubVars, iterVars, countVars, parseVars, localVars>>

Next ==
    \/ ConnectOk
    \/ ConnectFail
    \/ ConnectSleep
    \/ StartupInterrupt
    \/ LoopTop
    \/ CheckDue
    \/ CheckNotDue
    \/ Fetch
    \/ ParseOk
    \/ ParseFail
    \/ PublishOk
    \/ PublishFail
    \/ ChainDone
    \/ Heartbeat
    \/ Backoff
    \/ InterruptInTry
    \/ InterruptInBackoff
    \/ Shutdown

Spec == Init /\ [][Next]_vars

TypeOK ==
    /\ pc \in LoopPcs \cup {"connect", "connect_sleep", "shutdown", "returned", "crashed"}
    /\ attempt \in 1..max_retries
    /\ block \in {1, 2}
    /\ clock \in StartClock..MaxClock

\* ---------------------------------------------------------------------------
\* ParseSpec: parse_ttn_stats on its own
\* ---------------------------------------------------------------------------
MaxAges == {0, DefaultMaxAge}

\* ages (seconds) of the instants offered as last_uplink_received_at
Ages == {-1, 0, 1, DefaultMaxAge - 1, DefaultMaxAge, DefaultMaxAge + 1}

ParseCounts ==
    {CountInt(n) : n \in -1..MaxCount} \cup {CountStr(MaxCount), CountMissing, CountBad}

ParseLastUp ==
    {TsMissing, TsEmpty, TsGarbage, TsBadType}
    \cup {TsIso(StartClock - a) : a \in Ages}
    \cup {TsNaive(StartClock - a) : a \in {0, DefaultMaxAge + 1}}

ParseDocs ==
    {DocNone, DocEmpty, DocNonDict} \cup
    {DocDict(up, down, lastUp, lastDown) :
        up \in ParseCounts,
        down \in {CountStr(1), CountMissing, CountBad},
        lastUp \in ParseLastUp,
        lastDown \in {TsMissing, TsEmpty, TsIso(StartClock)}}

ParseInit ==
    /\ SchedInit
    /\ ttn_configured = FALSE
    /\ p_pc = "call"
    /\ p_data \in ParseDocs
    /\ p_max_age \in MaxAges
    /\ p_now = StartClock
    /\ p_out = NoRecord
    /\ LocalIdle

schedVars == <<pc, startupVars, busVars, interrupted, clock, ttn_configured,
               last_local, last_ttn, chainVars, pubVars, iterVars, countVars>>

\* parse_ttn_stats(p_data, p_max_age) returns
ParseReturn ==
    /\ p_pc = "call"
    /\ ~ParseRaises(p_data)
    /\ p_out' = parse_ttn_stats(p_data, p_max_age, p_now)
    /\ p_pc' = "returned"
    /\ UNCHANGED <<schedVars, localVars, p_data, p_max_age, p_now>>

\* parse_ttn_stats(p_data, p_max_age) raises
ParseRaise ==
    /\ p_pc = "call"
    /\ ParseRaises(p_data)
    /\ p_pc' = "raised"
    /\ UNCHANGED <<schedVars, localVars, p_data, p_max_age, p_now, p_out>>

ParseNext == ParseReturn \/ ParseRaise

ParseSpec == ParseInit /\ [][ParseNext]_vars

\* ---------------------------------------------------------------------------
\* LocalSpec: get_gateway_stats on its own
\* ---------------------------------------------------------------------------
\* A log line is known by what the scans look for in it: whitespace only, no
\* marker, "[S2E:" with " RX ", with " TX ", with both, or " RX " without
\* "[S2E:".
LineKinds == {"blank", "other", "rx", "tx", "rxtx", "rx_nos2e"}

\* "[S2E:" in line
HasS2E(line) == line \in {"rx", "tx", "rxtx"}

\* " RX " in line
HasRX(line) == line \in {"rx", "rxtx", "rx_nos2e"}

\* " TX " in line
HasTX(line) == line \in {"tx", "rxtx"}

\* lines 82-87: the line is not skipped and adds to rx_count
CountsAsRx(line) == line # "blank" /\ HasS2E(line) /\ HasRX(line)

\* lines 82-83 and 92-93: the line is not skipped and adds to tx_count
CountsAsTx(line) == line # "blank" /\ HasS2E(line) /\ HasTX(line)

\* lines 78-97: rx_count after the loop has passed the first n lines
RECURSIVE RxCount(_, _)
RxCount(lines, n) ==
    IF n = 0 THEN 0
    ELSE RxCount(lines, n - 1) + (IF CountsAsRx(lines[n]) THEN 1 ELSE 0)

\* lines 78-97: tx_count after the loop has passed the first n lines
RECURSIVE TxCount(_, _)
TxCount(lines, n) ==
    IF n = 0 THEN 0
    ELSE TxCount(lines, n - 1) + (IF CountsAsTx(lines[n]) THEN 1 ELSE 0)

parse_log_lines(lines) ==
    [rx |-> RxCount(lines, Len(lines)), tx |-> TxCount(lines, Len(lines))]

\* line 107 as lines[:50]
RecentLines_Head(lines) ==
    IF lines = <<>> THEN <<>>
    ELSE SubSeq(lines, 1, IF Len(lines) > RecentWindow THEN RecentWindow ELSE Len(lines))

\* line 107: lines[-50:] if lines else []
RecentLines(lines) ==
    IF lines = <<>> THEN <<>>
    ELSE SubSeq(lines,
                IF Len(lines) > RecentWindow THEN Len(lines) - RecentWindow + 1 ELSE 1,
                Len(lines))

\* line 108 without the "[S2E:" test
IsRecentRx_NoMarker(line) == HasRX(line)

\* line 108: the test of the recency scan
IsRecentRx(line) == HasS2E(line) /\ HasRX(line)

\* lines 103-122: the record built from the fetched lines
get_gateway_stats(lines, clk) ==
    LET stats == parse_log_lines(lines)
        recent_lines == RecentLines(lines)
        has_rx_recent == \E i \in DOMAIN recent_lines : IsRecentRx(recent_lines[i])
    IN [rx_total |-> stats.rx, tx_total |-> stats.tx,
        connected |-> has_rx_recent, timestamp |-> clk]

\* lengths of the runs a window is made of
RunLens == {1, 5, RecentWindow - 1, RecentWindow, RecentWindow + 5}

RECURSIVE SumLens(_, _)
SumLens(lens, n) == IF n = 0 THEN 0 ELSE lens[n] + SumLens(lens, n - 1)

RECURSIVE Expand(_, _, _)
Expand(kinds, lens, n) ==
    IF n = 0 THEN <<>>
    ELSE Expand(kinds, lens, n - 1) \o [i \in 1..lens[n] |-> kinds[n]]

\* the run lengths of a window of k runs that container.logs(tail=100) can
\* give: at most TailLines lines
FittingLens(k) == {lens \in [1..k -> RunLens] : SumLens(lens, k) <= TailLines}

LocalInit ==
    /\ SchedInit
    /\ ttn_configured = FALSE
    /\ ParseIdle
    /\ l_pc = "call"
    /\ l_docker_ok \in BOOLEAN
    /\ IF l_docker_ok
       THEN \E k \in 0..MaxRuns :
               \E kinds \in [1..k -> LineKinds], lens \in FittingLens(k) :
                  l_lines = Expand(kinds, lens, k)
       ELSE l_lines = <<>>
    /\ l_out = NoLocalStats

\* lines 61-67 and 103-122: get_docker_logs returns the window
GetStatsFromLogs ==
    /\ l_pc = "call"
    /\ l_docker_ok
    /\ l_out' = get_gateway_stats(l_lines, clock)
    /\ l_pc' = "returned"
    /\ UNCHANGED <<schedVars, parseVars, l_docker_ok, l_lines>>

\* lines 68-70 and 103-122: the Docker API raises, get_docker_logs returns []
GetStatsDockerError ==
    /\ l_pc = "call"
    /\ ~l_docker_ok
    /\ l_out' = get_gateway_stats(<<>>, clock)
    /\ l_pc' = "returned"
    /\ UNCHANGED <<schedVars, parseVars, l_docker_ok, l_lines>>

LocalNext == GetStatsFromLogs \/ GetStatsDockerError

LocalSpec == LocalInit /\ [][LocalNext]_vars

\* ---------------------------------------------------------------------------
\* Properties of the scheduler (checked under Spec)
\* ---------------------------------------------------------------------------
\* the remote interval had elapsed when this iteration read `now`
RemoteDue == now - last_ttn_top >= ttn_interval

\* the iteration has reached its end: time.sleep(1), or the handler's sleep
IterationEnded == pc \in {"sleep", "backoff"}

\* C1 as stated: in every iteration in which the remote interval has elapsed,
\* fetch_ttn_stats is called exactly once and last_ttn is reset to the
\* iteration's `now`; in every other iteration the chain does not run.
C1_SingleFireAndReset ==
    IterationEnded =>
        IF RemoteDue
        THEN iter_fetches = 1 /\ last_ttn = now
        ELSE iter_fetches = 0 /\ pubs = <<>>

\* C1 as amended: in every iteration in which the remote interval has elapsed,
\* fetch_ttn_stats is called exactly once (the second block never runs);
\* last_ttn is reset to the iteration's `now` when the chain ran to its end
\* and keeps its previous value when an exception aborted the chain; in every
\* other iteration the chain does not run and last_ttn is unchanged.
C1_SingleFire ==
    /\ iter_fetches <= 1
    /\ IterationEnded =>
          IF RemoteDue
          THEN /\ iter_fetches = 1
               /\ pc = "sleep" => last_ttn = now
               /\ pc = "backoff" => last_ttn = last_ttn_top
          ELSE /\ iter_fetches = 0
               /\ pubs = <<>>
               /\ last_ttn = last_ttn_top

\* a due iteration that completed its chain, after an earlier aborted one
C1_Witness ==
    /\ pc = "sleep"
    /\ RemoteDue
    /\ iter_fetches = 1
    /\ last_ttn = now
    /\ failures > 0

\* C2: whenever 5 s have elapsed since last_local the loop runs the local
\* chain: at the end of every completed iteration the local chain has run at
\* least once and is not overdue.
C2_LocalChainEveryInterval ==
    pc = "sleep" => (local_runs >= 1 /\ now - last_local < local_interval)

\* the iterations so far were exactly one second apart
OneSecondTicks == clock = StartClock + startup_slept + ticks

\* C3: with iterations one second apart, the remote chain has not run before
\* tick 10 and has run once at tick 10, the local chain has run once from
\* tick 5 on and twice at tick 10, also when the remote chain fails at tick 10.
C3_ElevenTicks ==
    (IterationEnded /\ OneSecondTicks) =>
        /\ ticks < 5 => (local_runs = 0 /\ ttn_runs = 0)
        /\ ticks \in 5..9 => (local_runs = 1 /\ ttn_runs = 0)
        /\ ticks = 10 => (local_runs = 2 /\ ttn_runs = 1)

\* C4: an iteration whose remote chain raised has still made the local
\* schedule check: the local chain is not left overdue by it.
C4_LocalCheckSurvivesRemoteFailure ==
    pc = "backoff" => now - last_local < local_interval

\* the statement about to run raises an exception that is not an interrupt
Raising ==
    \/ pc = "parse" /\ ParseRaises(ttn_raw)
    \/ pc = "publish" /\ PublishRaises(NextMessage.payload)

\* C5: an exception raised in the chain is caught by the loop, which then
\* sleeps 5 s and starts the next iteration; as long as no interrupt arrives
\* the loop is running and the bus client is neither stopped nor disconnected.
C5_FailureCaught ==
    /\ []((failures > 0 /\ ~interrupted) =>
            (pc \in LoopPcs /\ loop_running /\ ~disconnected))
    /\ [][/\ (Raising /\ ~interrupted') => (failures' = failures + 1 /\ pc' = "backoff")
          /\ (pc = "backoff" /\ ~interrupted') =>
                (pc' = "loop_top" /\ clock' = clock + ErrorBackoff)]_vars

\* two failures behind it, the loop starts another iteration
C5_Witness ==
    /\ failures >= 2
    /\ pc = "loop_top"
    /\ ~interrupted
    /\ loop_running

\* C6: once the loop has started, publish_stats is left only after an
\* interrupt and only through loop_stop() and disconnect().
C6_InterruptDisconnects ==
    (bus_connected /\ pc \in {"returned", "crashed"}) =>
        (interrupted /\ pc = "returned" /\ disconnected /\ ~loop_running)

\* C7: at most 3 connect attempts, 5 s slept after each failed one but the
\* last; the loop and every publish need a successful attempt; after 3 failed
\* attempts publish_stats has returned, no loop, nothing fetched or published.
C7_BoundedConnect ==
    /\ attempt <= max_retries
    /\ connect_fails <= max_retries
    /\ connect_fails \in {attempt - 1, attempt}
    /\ startup_slept = ConnectBackoff * (attempt - 1)
    /\ (pc \in LoopPcs \cup {"shutdown"} \/ loop_running \/ pub_total > 0 \/ ttn_runs > 0)
          => bus_connected
    /\ connect_fails = max_retries =>
          /\ pc = "returned"
          /\ ~bus_connected
          /\ ~loop_running
          /\ pub_total = 0
          /\ ttn_runs = 0

\* all three attempts failed
C7_Witness ==
    /\ connect_fails = max_retries
    /\ pc = "returned"
    /\ startup_slept = ConnectBackoff * (max_retries - 1)

\* ---------------------------------------------------------------------------
\* Properties of parse_ttn_stats (checked under ParseSpec)
\* ---------------------------------------------------------------------------
\* C8: a returned record has connected only with uplink_count > 0; a document
\* whose uplink_count is 0 gives connected = FALSE whatever its timestamp.
C8_ConnectedNeedsUplink ==
    p_pc = "returned" =>
        /\ p_out.connected => p_out.uplink_count > 0
        /\ (p_data.kind = "dict" /\ p_data.uplink_count.k \in {"int", "numstr"}
              /\ p_data.uplink_count.v = 0) => ~p_out.connected

\* uplink_count 0 with a timestamp of age 0
C8_Witness ==
    /\ p_pc = "returned"
    /\ p_data.kind = "dict"
    /\ p_data.uplink_count = CountInt(0)
    /\ p_data.last_uplink_received_at = TsIso(p_now)
    /\ ~p_out.connected

\* C9: for a timestamp that is an ISO-8601 instant, connected is
\* (age <= max_age_seconds) and (uplink_count > 0); with 600 and a positive
\* count, ages 599 and 600 give TRUE and age 601 gives FALSE.
C9_StalenessBoundary ==
    (p_pc = "returned" /\ p_data.kind = "dict"
        /\ p_data.last_uplink_received_at.k = "iso") =>
        LET age == p_now - p_data.last_uplink_received_at.t
        IN /\ p_out.connected <=> (age <= p_max_age /\ p_out.uplink_count > 0)
           /\ (p_max_age = 600 /\ p_out.uplink_count > 0) =>
                 /\ age = 601 => ~p_out.connected
                 /\ age = 599 => p_out.connected
                 /\ age = 600 => p_out.connected

\* age exactly 600 with max_age_seconds 600 and a positive count
C9_Witness ==
    /\ p_pc = "returned"
    /\ p_data.kind = "dict"
    /\ p_data.last_uplink_received_at = TsIso(p_now - 600)
    /\ p_max_age = 600
    /\ p_out.uplink_count > 0
    /\ p_out.connected

\* C10: an absent document gives counts 0, empty timestamps and
\* connected = FALSE for every max_age_seconds.
C10_AbsentGivesZeroRecord ==
    (p_pc # "call" /\ p_data.kind = "none") =>
        /\ p_pc = "returned"
        /\ p_out.uplink_count = 0
        /\ p_out.downlink_count = 0
        /\ p_out.last_uplink_received_at.k = "empty"
        /\ p_out.last_downlink_received_at.k = "empty"
        /\ p_out.connected = FALSE

\* the absent document parsed with max_age_seconds 0
C10_Witness ==
    /\ p_pc = "returned"
    /\ p_data.kind = "none"
    /\ p_max_age = 0

\* C11: a non-empty last_uplink_received_at that is not an ISO-8601 instant
\* never makes parse_ttn_stats raise (it raises only for a count int()
\* rejects), and the returned record has connected = (uplink_count > 0).
C11_MalformedTimestampFallback ==
    (p_pc # "call" /\ p_data.kind = "dict"
        /\ p_data.last_uplink_received_at.k \in {"garbage", "naive", "badtype"}) =>
        /\ p_pc = "raised" =>
              (IntRaises(p_data.uplink_count) \/ IntRaises(p_data.downlink_count))
        /\ p_pc = "returned" =>
              (p_out.connected <=> p_out.uplink_count > 0)

\* a timestamp fromisoformat rejects, with uplink_count 3
C11_Witness ==
    /\ p_pc = "returned"
    /\ p_data.kind = "dict"
    /\ p_data.last_uplink_received_at = TsGarbage
    /\ p_out.uplink_count = 3
    /\ p_out.connected

\* C12: a present document without last_uplink_received_at, or with an empty
\* one, gives connected = FALSE for every uplink_count.
C12_EmptyTimestampDisconnected ==
    (p_pc = "returned" /\ p_data.kind = "dict"
        /\ p_data.last_uplink_received_at.k \in {"missing", "empty"}) =>
        /\ ~p_out.connected
        /\ p_out.last_uplink_received_at.k = "empty"

\* an empty timestamp with a positive uplink_count
C12_Witness ==
    /\ p_pc = "returned"
    /\ p_data.kind = "dict"
    /\ p_data.last_uplink_received_at = TsEmpty
    /\ p_out.uplink_count > 0
    /\ ~p_out.connected

\* C13: for a present document whose uplink_count or downlink_count is missing
\* or non-numeric, parse_ttn_stats returns, with that count equal to 0.
C13_BadCountDefaultsToZero ==
    (p_pc # "call" /\ p_data.kind = "dict") =>
        /\ p_data.uplink_count.k \in {"missing", "bad"} =>
              (p_pc = "returned" /\ p_out.uplink_count = 0)
        /\ p_data.downlink_count.k \in {"missing", "bad"} =>
              (p_pc = "returned" /\ p_out.downlink_count = 0)

\* C15: fetch_ttn_stats always returns to the loop; with incomplete
\* configuration it returns None and no request is ever made; after a request
\* that ended in a bad status, a timeout or a network error it returns None;
\* a document is held only after a request that succeeded.
C15_FetchNeverRaises ==
    /\ [](/\ ~ttn_configured =>
                (http_requests = 0 /\ last_http = "none" /\ ttn_raw = DocNone)
          /\ (ttn_runs > 0 /\ last_http # "ok") => ttn_raw = DocNone
          /\ ttn_raw # DocNone => (last_http = "ok" /\ http_requests > 0))
    /\ [][(pc = "fetch" /\ ~interrupted') =>
             (pc' = "parse" /\ failures' = failures)]_vars

\* a request that timed out: None is handed to the loop, nothing was raised
C15_Witness ==
    /\ pc = "parse"
    /\ last_http = "timeout"
    /\ ttn_raw = DocNone
    /\ failures = 0

\* the six remote topics of the interface
RemoteTopics ==
    {"ttn/uplink_count", "ttn/downlink_count", "ttn/last_uplink_received_at",
     "ttn/last_downlink_received_at", "ttn/connected", "ttn/last_update"}

\* positions in this iteration's publishes that carry the topic
PubsOf(topic) == {i \in DOMAIN pubs : pubs[i].topic = topic}

\* the remote chain of this iteration has made its last publish
CycleCompleted == iter_fetches >= 1 /\ pc \in {"chain_done", "sleep"}

\* C16: a completed remote cycle has published each of the six topics exactly
\* once, every message retained, and ttn/connected carries "1" when the
\* record's flag is set and "0" otherwise.
C16_SixRetainedTopics ==
    CycleCompleted =>
        /\ Len(pubs) = 6
        /\ \A topic \in RemoteTopics : Cardinality(PubsOf(topic)) = 1
        /\ \A i \in DOMAIN pubs : pubs[i].retain = TRUE
        /\ \A i \in PubsOf("ttn/connected") :
              /\ pubs[i].payload.k = "str"
              /\ pubs[i].payload.s = IF ttn.connected THEN "1" ELSE "0"

\* a completed cycle of a connected gateway
C16_Witness ==
    /\ pc = "sleep"
    /\ iter_fetches = 1
    /\ ttn.connected
    /\ \E i \in DOMAIN pubs :
          pubs[i].topic = "ttn/connected" /\ pubs[i].payload.s = "1"

\* fetch_ttn_stats returned None in this iteration
RemoteAbsent == iter_fetches = 1 /\ ttn_raw = DocNone

\* C17: an iteration whose fetch returned None never reaches the handler; at
\* its end it has published counts 0, empty timestamps, ttn/connected "0" and
\* a ttn/last_update not older than `now`, last_ttn is `now`, and the next
\* step is the 1 s heartbeat.
C17_AbsentPublishesZeroRecord ==
    /\ [](RemoteAbsent => pc # "backoff")
    /\ []((RemoteAbsent /\ pc = "sleep") =>
            /\ last_ttn = now
            /\ Len(pubs) = 6
            /\ pubs[1].topic = "ttn/uplink_count"
            /\ pubs[1].payload.k = "int" /\ pubs[1].payload.v = 0
            /\ pubs[2].topic = "ttn/downlink_count"
            /\ pubs[2].payload.k = "int" /\ pubs[2].payload.v = 0
            /\ pubs[3].topic = "ttn/last_uplink_received_at"
            /\ pubs[3].payload.k = "ts" /\ pubs[3].payload.s = "empty"
            /\ pubs[4].topic = "ttn/last_downlink_received_at"
            /\ pubs[4].payload.k = "ts" /\ pubs[4].payload.s = "empty"
            /\ pubs[5].topic = "ttn/connected"
            /\ pubs[5].payload.k = "str" /\ pubs[5].payload.s = "0"
            /\ pubs[6].topic = "ttn/last_update"
            /\ pubs[6].payload.k = "time" /\ pubs[6].payload.v >= now)
    /\ [][(RemoteAbsent /\ pc = "sleep" /\ ~interrupted') =>
             (pc' = "loop_top" /\ clock' = clock + HeartbeatSleep
                /\ failures' = failures)]_vars

\* the request failed with a bad status and the cycle completed all the same
C17_Witness ==
    /\ RemoteAbsent
    /\ last_http = "status"
    /\ pc = "sleep"
    /\ Len(pubs) = 6

\* at the top of the loop: the iteration just ended had its chain aborted
PreviousAborted == iter_fetches = 1 /\ last_ttn = last_ttn_top

\* C18: an aborted cycle leaves last_ttn as it was, so the iteration after the
\* backoff is due again; last_ttn changes only at the end of a completed
\* chain, to that iteration's `now`, at least 10 s after its previous value.
C18_RetryAfterAbort ==
    /\ [](pc = "backoff" => last_ttn = last_ttn_top)
    /\ []((pc = "loop_top" /\ PreviousAborted) => clock - last_ttn >= ttn_interval)
    /\ [][/\ last_ttn' # last_ttn =>
                (pc = "chain_done" /\ last_ttn' = now
                   /\ last_ttn' - last_ttn >= ttn_interval)
          /\ (pc = "backoff" /\ pc' = "loop_top") =>
                (last_ttn' = last_ttn /\ clock' - last_ttn' >= ttn_interval)]_vars

\* a cycle completed after an aborted one, with a completed one before both
C18_Witness ==
    /\ pc = "sleep"
    /\ failures >= 1
    /\ last_ttn = now
    /\ last_ttn_top >= StartClock

\* C20: ttn/last_update is published after the other five topics of the same
\* cycle and is the last publish of the iteration; an aborted cycle has not
\* published it.
C20_LastUpdateLast ==
    /\ \A i \in PubsOf("ttn/last_update") :
          /\ i = Len(pubs)
          /\ \A topic \in RemoteTopics \ {"ttn/last_update"} :
                \E j \in 1..(i - 1) : pubs[j].topic = topic
    /\ pc = "backoff" => PubsOf("ttn/last_update") = {}

\* a cycle aborted after its first publishes
C20_Witness ==
    /\ pc = "backoff"
    /\ Len(pubs) >= 2
    /\ PubsOf("ttn/last_update") = {}


\* ---------------------------------------------------------------------------
\* Properties of get_gateway_stats (checked under LocalSpec)
\* ---------------------------------------------------------------------------
\* an uplink-event line: station-engine marker and receive marker
UplinkLine(line) == line \in {"rx", "rxtx"}

\* C14: rx_total is the number of uplink-event lines of the whole window and
\* connected holds iff one of them is among the last 50 lines; 60 lines with
\* uplink events exactly in lines 1 to 5 give rx_total 5 and connected FALSE;
\* the empty window gives 0, 0, FALSE.
C14_CountAndRecency ==
    (l_pc = "returned" /\ l_docker_ok) =>
        LET n == Len(l_lines)
            uplinks == {i \in 1..n : UplinkLine(l_lines[i])}
        IN /\ l_out.rx_total = Cardinality(uplinks)
           /\ l_out.connected <=> (\E i \in uplinks : i > n - 50)
           /\ (n = 60 /\ uplinks = 1..5) =>
                 (l_out.rx_total = 5 /\ ~l_out.connected)
           /\ n = 0 =>
                 (l_out.rx_total = 0 /\ l_out.tx_total = 0 /\ ~l_out.connected)

\* the 60-line window with uplink events in lines 1 to 5 only
C14_Witness ==
    /\ l_pc = "returned"
    /\ l_docker_ok
    /\ Len(l_lines) = 60
    /\ {i \in 1..60 : UplinkLine(l_lines[i])} = 1..5
    /\ l_out.rx_total = 5
    /\ ~l_out.connected

\* C19: a returned record with connected set has rx_total >= 1; when the logs
\* cannot be retrieved the call returns rx_total 0, tx_total 0, connected FALSE.
C19_ConnectedImpliesRx ==
    /\ l_pc # "call" => l_pc = "returned"
    /\ l_pc = "returned" =>
          /\ l_out.connected => l_out.rx_total >= 1
          /\ ~l_docker_ok =>
                (l_out.rx_total = 0 /\ l_out.tx_total = 0 /\ ~l_out.connected)

\* the Docker API failed and a record came back
C19_Witness ==
    /\ l_pc = "returned"
    /\ ~l_docker_ok
    /\ l_out.rx_total = 0

====
